---- MODULE Spec2Model ----
(***************************************************************************)
(* Model of the live-feed synchronizer of the Dashboard component          *)
(* (src/src/components/Dashboard.tsx): the retained sandwich list and its  *)
(* localStorage cache, the WebSocket client with its reconnect / fallback  *)
(* polling policy, and the balance time series.                            *)
(***************************************************************************)
EXTENDS Integers, Sequences, FiniteSets, Bags, TLC

VARIABLES
    phase,                     \* "init" | "mounted" | "crashed" | "unmounted"
    localStorage,              \* the entry under LOCAL_STORAGE_KEY
    sandwiches,                \* React state `sandwiches`, as last rendered
    pendingSandwiches,         \* what the queued setSandwiches updaters make of it
    pendingIsNew,              \* a queued updater has returned a new array
    saveDue,                   \* the save effect of the last render has not run
    websocket,                 \* closure variable `websocket` (latest socket)
    stale,                     \* earlier sockets that still have events to deliver
    reconnectAttempts,         \* closure variable `reconnectAttempts`
    reconnectTimers,           \* pending setTimeout(connectWebSocket(nextUrl), 3000)
    fallbackIntervalId,        \* closure variable (0 = null)
    reconnectIntervalId,       \* closure variable (0 = null)
    initialFallbackIntervalId, \* closure variable (0 = null)
    pollIntervals,             \* handles of running 10s fetchSandwichesFallback intervals
    periodicIntervals,         \* handles of running 30s periodic-reconnect intervals
    backupIntervals,           \* handles of running 30s backup-poll intervals
    pollsInFlight,             \* fetchSandwichesFallback calls awaiting instantQuery
    balanceChartData,          \* React state `balanceChartData`
    historyFetch,              \* "idle" | "pending" | "done"
    liveTimer,                 \* "none" | "grace" | "interval" | "cleared"
    liveInFlight,              \* fetchLatestBalance calls awaiting instantQuery
    profitPerHour,             \* React state `profitPerHour`
    rateFetches,               \* the fetchProfitPerHour calls, by call slot
    rateInterval,              \* the 60s fetchProfitPerHour interval is running
    activeBalanceTab,          \* React state `activeBalanceTab`
    isProfitRateLoading,       \* React state `isProfitRateLoading`
    profitRateData,            \* React state `profitRateData`
    profitFetches,             \* fetchProfitRate calls awaiting rangeQuery, by activation
    activations,               \* history: times the Profit Rate view became active
    fetchedProfit,             \* history: what each settled fetchProfitRate call stored
    closesSinceOpen,           \* history: abnormal closes handled since the last open
    lastEvent                  \* history: the event the last step handled, with its input

storeVars == <<phase, localStorage, sandwiches, pendingSandwiches, pendingIsNew,
              saveDue>>
feedVars == <<websocket, stale, reconnectAttempts, reconnectTimers,
              fallbackIntervalId, reconnectIntervalId, initialFallbackIntervalId,
              pollIntervals, periodicIntervals, backupIntervals, pollsInFlight,
              closesSinceOpen>>
seriesVars == <<balanceChartData, historyFetch, liveTimer, liveInFlight>>
rateVars == <<profitPerHour, rateFetches, rateInterval>>
viewVars == <<activeBalanceTab, isProfitRateLoading, profitRateData,
              profitFetches, activations, fetchedProfit>>
vars == <<phase, localStorage, sandwiches, pendingSandwiches, pendingIsNew,
          saveDue, websocket, stale, reconnectAttempts,
          reconnectTimers, fallbackIntervalId, reconnectIntervalId,
          initialFallbackIntervalId, pollIntervals, periodicIntervals,
          backupIntervals, pollsInFlight, balanceChartData, historyFetch,
          liveTimer, liveInFlight, profitPerHour, rateFetches, rateInterval,
          activeBalanceTab, isProfitRateLoading, profitRateData, profitFetches,
          activations, fetchedProfit, closesSinceOpen, lastEvent>>

----------------------------------------------------------------------------
(* Bounds of the model *)

\* number of slots, beyond those of the cached arrays, that inbound records use
MaxNewSlots == 1
\* payloads 0..MaxPayload tell two records of the same slot apart
MaxPayload == 1
\* fetchSandwichesFallback calls that may await their query at once
MaxPolls == 2
\* sockets not yet closed and reconnect setTimeouts pending, taken together,
\* that there may be at once
MaxInProgress == 3
\* timestamps of the balance points are 1..MaxTime
MaxTime == 3
\* fetchLatestBalance calls that may await their query at once
MaxLive == 2
\* the profit values a query may return are 1..MaxProfit
MaxProfit == 1
\* fetchProfitPerHour calls that may await a query at once
MaxRateCalls == 2
\* times the Profit Rate view may become active
MaxActivations == 2

(* Program constants *)

\* [newSandwich, ...prev].slice(0, 50) and parsedData.slice(0, 50)
Capacity == 50

maxReconnectAttempts == 10

Min(a, b) == IF a <= b THEN a ELSE b

----------------------------------------------------------------------------
(* Values: what JSON.parse can return for the texts the program reads.     *)
(* An element of shape "sandwich" is an object with a data.sandwich        *)
(* payload (interface SandwichData); "object" is an object without one;    *)
(* "number" is a JSON number.                                              *)

Rec(s, p) == [shape |-> "sandwich", slot |-> s, payload |-> p]
PlainObject == [shape |-> "object", slot |-> 0, payload |-> 0]
Number(n) == [shape |-> "number", slot |-> n, payload |-> 0]

\* newSandwich && newSandwich.data && newSandwich.data.sandwich
hasSandwich(v) == v.shape = "sandwich"

(* JSON texts are token sequences. *)
Tok(t, v) == [t |-> t, v |-> v]
LB == Tok("[", 0)
RB == Tok("]", 0)
LBRACE == Tok("{", 0)
RBRACE == Tok("}", 0)
COMMA == Tok(",", 0)
NUM(n) == Tok("num", n)

stringifyValue(v) ==
    IF v.shape = "sandwich" THEN <<LBRACE, NUM(v.slot), NUM(v.payload), RBRACE>>
    ELSE IF v.shape = "object" THEN <<LBRACE, RBRACE>>
    ELSE <<NUM(v.slot)>>

\* the texts of arr[lo..hi], separated by commas
RECURSIVE stringifyElems(_, _, _)
stringifyElems(arr, lo, hi) ==
    IF lo > hi THEN <<>>
    ELSE IF lo = hi THEN stringifyValue(arr[lo])
    ELSE LET mid == (lo + hi) \div 2 IN
         stringifyElems(arr, lo, mid) \o <<COMMA>> \o stringifyElems(arr, mid + 1, hi)

\* JSON.stringify of an array
JSONstringify(arr) == <<LB>> \o stringifyElems(arr, 1, Len(arr)) \o <<RB>>

\* the value whose text starts at position i, with the position after it;
\* next = 0 when no value starts there
parseValue(text, i) ==
    IF i > Len(text) THEN [next |-> 0, value |-> PlainObject]
    ELSE IF text[i].t = "num" THEN [next |-> i + 1, value |-> Number(text[i].v)]
    ELSE IF text[i] = LBRACE /\ i + 1 <= Len(text) /\ text[i + 1] = RBRACE
        THEN [next |-> i + 2, value |-> PlainObject]
    ELSE IF text[i] = LBRACE /\ i + 3 <= Len(text) /\ text[i + 1].t = "num"
            /\ text[i + 2].t = "num" /\ text[i + 3] = RBRACE
        THEN [next |-> i + 4, value |-> Rec(text[i + 1].v, text[i + 2].v)]
    ELSE [next |-> 0, value |-> PlainObject]

\* the elements of the array text <<LB, ..., RB>>: the texts between its
\* commas, each of which must be one value; ok = FALSE on a syntax error
parseElems(text) ==
    LET commas == {i \in 2..(Len(text) - 1) : text[i] = COMMA}
        n == Cardinality(commas) + 1
        \* the position before element k and the position after it
        before(k) == IF k = 1 THEN 1
                     ELSE CHOOSE c \in commas :
                            Cardinality({d \in commas : d < c}) = k - 2
        after(k) == IF k = n THEN Len(text)
                    ELSE CHOOSE c \in commas :
                            Cardinality({d \in commas : d < c}) = k - 1
        elem(k) == parseValue(SubSeq(text, before(k) + 1, after(k) - 1), 1)
    IN  IF text[Len(text)] = RB
            /\ \A k \in 1..n : elem(k).next = after(k) - before(k)
            THEN [ok |-> TRUE, value |-> [k \in 1..n |-> elem(k).value]]
        ELSE [ok |-> FALSE, value |-> <<>>]

\* JSON.parse: ok = FALSE when it throws; value is the sequence of elements
\* of an array, and a one-element sequence holding any other value
JSONparse(text) ==
    IF Len(text) = 0 THEN [ok |-> FALSE, isArray |-> FALSE, value |-> <<>>]
    ELSE IF text[1] = LB THEN
        IF Len(text) = 2 /\ text[2] = RB
            THEN [ok |-> TRUE, isArray |-> TRUE, value |-> <<>>]
        ELSE LET r == parseElems(text) IN
             [ok |-> r.ok, isArray |-> r.ok, value |-> r.value]
    ELSE LET e == parseValue(text, 1) IN
         IF e.next = Len(text) + 1
            THEN [ok |-> TRUE, isArray |-> FALSE, value |-> <<e.value>>]
         ELSE [ok |-> FALSE, isArray |-> FALSE, value |-> <<>>]

----------------------------------------------------------------------------
(* EventStore: the retained list and its cache *)

\* Array.prototype.slice(0, n)
slice(arr, n) == SubSeq(arr, 1, Min(n, Len(arr)))

Absent == [state |-> "absent", text |-> <<>>]
Unreadable == [state |-> "unreadable", text |-> <<>>]
Stored(text) == [state |-> "present", text |-> text]

\* (mutant) the cached array is returned without the clamp to 50
getInitialSandwiches_noClamp(store) ==
    IF store.state /= "present" THEN <<>>
    ELSE IF Len(store.text) = 0 THEN <<>>
    ELSE LET parsedData == JSONparse(store.text) IN
         IF parsedData.ok /\ parsedData.isArray THEN parsedData.value ELSE <<>>

\* (mutant) whatever parses is returned, array or not
getInitialSandwiches_noArrayCheck(store) ==
    IF store.state /= "present" THEN <<>>
    ELSE IF Len(store.text) = 0 THEN <<>>
    ELSE LET parsedData == JSONparse(store.text) IN
         IF parsedData.ok THEN slice(parsedData.value, Capacity) ELSE <<>>

getInitialSandwiches(store) ==
    IF store.state /= "present" THEN <<>>           \* null, or getItem throws
    ELSE IF Len(store.text) = 0 THEN <<>>           \* if (storedData): "" is falsy
    ELSE LET parsedData == JSONparse(store.text) IN
         IF parsedData.ok /\ parsedData.isArray
            THEN slice(parsedData.value, Capacity)
         ELSE <<>>

\* (mutant) the save keeps one record too few
saveEffect_short(store, list, writeOk) ==
    IF writeOk /\ store.state /= "unreadable"
        THEN Stored(JSONstringify(slice(list, Capacity - 1)))
    ELSE store

\* (mutant) a write that throws removes the entry
saveEffect_removesOnFailure(store, list, writeOk) ==
    IF writeOk /\ store.state /= "unreadable"
        THEN Stored(JSONstringify(slice(list, Capacity)))
    ELSE IF store.state /= "unreadable" THEN Absent
    ELSE store

\* localStorage.setItem(KEY, JSON.stringify(sandwiches.slice(0, 50))) in try/catch
saveEffect(store, list, writeOk) ==
    IF writeOk /\ store.state /= "unreadable"
        THEN Stored(JSONstringify(slice(list, Capacity)))
    ELSE store

\* prev.findIndex(s => s.data.sandwich.slot === newSandwich.data.sandwich.slot),
\* 0 for -1; every element of prev has a data.sandwich (see canRender)
findIndex(prev, slot) ==
    IF \E i \in 1..Len(prev) : prev[i].slot = slot
        THEN CHOOSE i \in 1..Len(prev) :
                /\ prev[i].slot = slot
                /\ \A j \in 1..(i - 1) : prev[j].slot /= slot
    ELSE 0

\* (mutant) the updater prepends without looking for the slot
updateSandwiches_noDedup(prev, newSandwich) ==
    IF hasSandwich(newSandwich) THEN slice(<<newSandwich>> \o prev, Capacity)
    ELSE prev

\* (mutant) a record whose slot is retained replaces the retained one
updateSandwiches_overwrite(prev, newSandwich) ==
    IF hasSandwich(newSandwich)
        THEN IF findIndex(prev, newSandwich.slot) = 0
                THEN slice(<<newSandwich>> \o prev, Capacity)
             ELSE [prev EXCEPT ![findIndex(prev, newSandwich.slot)] = newSandwich]
    ELSE prev

\* the updater returns updatedSandwiches, a new array, and not prev
returnsNewArray(prev, newSandwich) ==
    hasSandwich(newSandwich) /\ findIndex(prev, newSandwich.slot) = 0

\* the state updater of updateSandwiches, with its validation
updateSandwiches(prev, newSandwich) ==
    IF hasSandwich(newSandwich)
        THEN IF findIndex(prev, newSandwich.slot) = 0
                THEN slice(<<newSandwich>> \o prev, Capacity)
             ELSE prev
    ELSE prev

\* sandwiches.map(s => ... s.data.sandwich.slot ...) in the JSX: rendering an
\* element without data.sandwich throws, and the component never mounts
canRender(list) == \A i \in 1..Len(list) : hasSandwich(list[i])

----------------------------------------------------------------------------
(* EventFeedClient: the WebSocket effect *)

primaryWsUrl == "primary"
fallbackWsUrl == "fallback"

\* the close codes a close event may carry; 1000 and 1005 are the normal ones
CloseCodes == {1000, 1001, 1005, 1006}

NoSocket == [url |-> "none", readyState |-> "NONE", onclose |-> FALSE, failing |-> FALSE]

\* new WebSocket(url) with the four handlers assigned
NewSocket(url) == [url |-> url, readyState |-> "CONNECTING", onclose |-> TRUE,
                   failing |-> FALSE]

\* WebSocket.close(): a connecting socket fails its connection (an error
\* event and a close event with code 1006 follow), an open one starts the
\* closing handshake, a closing or closed one is left as it is
closeSocket(s) ==
    IF s.readyState = "CONNECTING"
        THEN [s EXCEPT !.readyState = "CLOSING", !.failing = TRUE]
    ELSE IF s.readyState = "OPEN" THEN [s EXCEPT !.readyState = "CLOSING"]
    ELSE s

isLive(s) == s.readyState \in {"CONNECTING", "OPEN"}

\* sockets other than the latest that are not yet closed
hasEvents(s) == s.readyState \in {"CONNECTING", "OPEN", "CLOSING"}

\* connection attempts in progress: the sockets whose close event is still
\* to come, the latest and the replaced ones, and the reconnect timeouts
\* still to fire.  A close event leaves at most one timeout behind, and a
\* timeout that fires one new socket next to the one it replaces; only a
\* tick of the periodic-reconnect interval adds an attempt.
AttemptsInProgress ==
    BagCardinality(reconnectTimers) + BagCardinality(stale)
        + (IF hasEvents(websocket) THEN 1 ELSE 0)

\* setInterval's return value: a handle no running interval has
NewHandle(running) ==
    IF running = {} THEN 1
    ELSE 1 + CHOOSE h \in running : \A g \in running : g <= h

\* (mutant) the prior socket is not closed
connectWebSocket_noClose(url) ==
    /\ stale' = IF hasEvents(websocket) THEN stale (+) SetToBag({websocket}) ELSE stale
    /\ websocket' = NewSocket(url)

\* if (websocket) websocket.close(); websocket = new WebSocket(url); ...
connectWebSocket(url) ==
    LET prior == closeSocket(websocket) IN
    /\ stale' = IF hasEvents(prior) THEN stale (+) SetToBag({prior}) ELSE stale
    /\ websocket' = NewSocket(url)

\* (mutant) the periodic-reconnect interval is left running
onopen_keepsPeriodic ==
    /\ reconnectAttempts' = 0
    /\ pollIntervals' = pollIntervals \ {fallbackIntervalId}
    /\ periodicIntervals' = periodicIntervals
    /\ fallbackIntervalId' = 0
    /\ reconnectIntervalId' = reconnectIntervalId
    /\ UNCHANGED <<initialFallbackIntervalId, backupIntervals>>

\* (mutant) the backup interval set at mount is cleared with the other two
onopen_clearsBackup ==
    /\ reconnectAttempts' = 0
    /\ pollIntervals' = pollIntervals \ {fallbackIntervalId}
    /\ periodicIntervals' = periodicIntervals \ {reconnectIntervalId}
    /\ backupIntervals' = backupIntervals \ {initialFallbackIntervalId}
    /\ fallbackIntervalId' = 0
    /\ reconnectIntervalId' = 0
    /\ initialFallbackIntervalId' = 0

\* websocket.onopen
onopen ==
    /\ reconnectAttempts' = 0
    /\ pollIntervals' = pollIntervals \ {fallbackIntervalId}
    /\ periodicIntervals' = periodicIntervals \ {reconnectIntervalId}
    /\ fallbackIntervalId' = 0
    /\ reconnectIntervalId' = 0
    /\ UNCHANGED <<initialFallbackIntervalId, backupIntervals>>

\* (mutant) fallback mode starts the poll interval alone
enterFallbackMode_noPeriodic ==
    /\ fallbackIntervalId' =
          IF fallbackIntervalId = 0 THEN NewHandle(pollIntervals)
          ELSE fallbackIntervalId
    /\ pollIntervals' =
          IF fallbackIntervalId = 0
              THEN pollIntervals \cup {NewHandle(pollIntervals)}
          ELSE pollIntervals
    /\ UNCHANGED <<reconnectIntervalId, periodicIntervals>>

\* (mutant) the intervals are set without the if (!...IntervalId) guards
enterFallbackMode_unguarded ==
    /\ fallbackIntervalId' = NewHandle(pollIntervals)
    /\ pollIntervals' = pollIntervals \cup {NewHandle(pollIntervals)}
    /\ reconnectIntervalId' = NewHandle(periodicIntervals)
    /\ periodicIntervals' = periodicIntervals \cup {NewHandle(periodicIntervals)}

\* the branch of websocket.onclose taken when the attempts are exhausted
enterFallbackMode ==
    /\ fallbackIntervalId' =
          IF fallbackIntervalId = 0 THEN NewHandle(pollIntervals)
          ELSE fallbackIntervalId
    /\ pollIntervals' =
          IF fallbackIntervalId = 0
              THEN pollIntervals \cup {NewHandle(pollIntervals)}
          ELSE pollIntervals
    /\ reconnectIntervalId' =
          IF reconnectIntervalId = 0 THEN NewHandle(periodicIntervals)
          ELSE reconnectIntervalId
    /\ periodicIntervals' =
          IF reconnectIntervalId = 0
              THEN periodicIntervals \cup {NewHandle(periodicIntervals)}
          ELSE periodicIntervals

\* (mutant) the attempts are not limited
mayReconnect_always(attempts) == TRUE

\* (mutant) the attempt that exhausts the budget is compared with <=
mayReconnect_lte(attempts) == attempts <= maxReconnectAttempts

\* if (reconnectAttempts < maxReconnectAttempts)
mayReconnect(attempts) == attempts < maxReconnectAttempts

\* (mutant) only 1000 counts as a normal closure
isNormalClose_only1000(code) == code = 1000

\* if (event.code === 1000 || event.code === 1005)
isNormalClose(code) == code \in {1000, 1005}

\* (mutant) the reconnect goes to the endpoint that has just closed
nextUrl_same(url) == url

\* const nextUrl = url === primaryWsUrl ? fallbackWsUrl : primaryWsUrl
nextUrl(url) == IF url = primaryWsUrl THEN fallbackWsUrl ELSE primaryWsUrl

\* (mutant) the error handler only logs
onerror_silent(polls) == polls

\* websocket.onerror: fetchSandwichesFallback() starts its query; polls is
\* the number of fallback polls in flight before it, the result the number
\* after it
onerror(polls) == polls + 1

\* websocket.onclose of a socket created for `url`, handling a close event
\* with `code`; polls is the number of fallback polls in flight before it.
\* attached is FALSE once the cleanup has replaced the handler.
onclose(url, code, attached, polls) ==
    IF ~attached \/ isNormalClose(code) THEN
        /\ pollsInFlight' = polls
        /\ UNCHANGED <<reconnectAttempts, reconnectTimers, fallbackIntervalId,
                       reconnectIntervalId, pollIntervals, periodicIntervals,
                       closesSinceOpen>>
    ELSE IF mayReconnect(reconnectAttempts) THEN
        /\ reconnectAttempts' = reconnectAttempts + 1
        /\ reconnectTimers' = reconnectTimers (+) SetToBag({nextUrl(url)})
        /\ pollsInFlight' = polls + 1
        /\ closesSinceOpen' = Min(closesSinceOpen + 1, maxReconnectAttempts + 2)
        /\ UNCHANGED <<fallbackIntervalId, reconnectIntervalId, pollIntervals,
                       periodicIntervals>>
    ELSE
        /\ enterFallbackMode
        /\ pollsInFlight' = polls
        /\ closesSinceOpen' = Min(closesSinceOpen + 1, maxReconnectAttempts + 2)
        /\ UNCHANGED <<reconnectAttempts, reconnectTimers>>

\* (mutant) the save effect has no dependency: it runs after the mount only
effectDue_never(isNew) == FALSE

\* the dependency array [sandwiches] of the save effect, compared with
\* Object.is: the effect runs after a render whose `sandwiches` is not the
\* array of the render before, whatever the two arrays hold
effectDue(isNew) == isNew

\* React runs a pending passive effect before it renders or commits again:
\* the save effect of the last render, if it has not run, writes the list
\* of that render
flushPassiveEffects(writeOk) ==
    /\ localStorage' = IF saveDue THEN saveEffect(localStorage, sandwiches, writeOk)
                       ELSE localStorage

\* the setSandwiches call of updateSandwiches: the updater is queued, and
\* React applies the queued updaters in order at the next render; nothing
\* is queued for an unmounted component.  The queue is kept as the list its
\* updaters give, which is the rendered list when the queue is empty, and
\* whether that list is a new array or the rendered array itself.
setSandwiches(newSandwich) ==
    /\ pendingSandwiches' =
          IF phase = "mounted" THEN updateSandwiches(pendingSandwiches, newSandwich)
          ELSE pendingSandwiches
    /\ pendingIsNew' =
          IF phase = "mounted"
              THEN pendingIsNew \/ returnsNewArray(pendingSandwiches, newSandwich)
          ELSE pendingIsNew
    /\ UNCHANGED <<sandwiches, localStorage, saveDue>>

\* (mutant) whatever parses is prepended, without either validation
onmessage_unvalidated(text) ==
    LET data == JSONparse(text) IN
    /\ pendingSandwiches' =
          IF data.ok /\ Len(data.value) > 0 /\ phase = "mounted"
              THEN slice(<<data.value[1]>> \o pendingSandwiches, Capacity)
          ELSE pendingSandwiches
    /\ pendingIsNew' =
          (pendingIsNew \/ (data.ok /\ Len(data.value) > 0 /\ phase = "mounted"))
    /\ UNCHANGED <<sandwiches, localStorage, saveDue>>

\* websocket.onmessage body: JSON.parse(event.data) in try/catch, validation,
\* updateSandwiches
onmessage(text) ==
    LET data == JSONparse(text) IN
    IF data.ok /\ ~data.isArray /\ hasSandwich(data.value[1])
        THEN setSandwiches(data.value[1])
    ELSE UNCHANGED <<sandwiches, pendingSandwiches, pendingIsNew, localStorage,
                    saveDue>>

\* (mutant) the parsed value is prepended as it is, past updateSandwiches
fetchSandwichesFallback_direct(result) ==
    LET sandwichData == JSONparse(result.text) IN
    /\ pendingSandwiches' =
          IF /\ result.kind = "value"
             /\ sandwichData.ok /\ ~sandwichData.isArray
             /\ phase = "mounted"
              THEN slice(<<sandwichData.value[1]>> \o pendingSandwiches, Capacity)
          ELSE pendingSandwiches
    /\ pendingIsNew' =
          (pendingIsNew \/ (/\ result.kind = "value"
                            /\ sandwichData.ok /\ ~sandwichData.isArray
                            /\ phase = "mounted"))
    /\ UNCHANGED <<sandwiches, localStorage, saveDue>>

\* fetchSandwichesFallback after its instantQuery has settled: the query
\* threw, returned no sample, or returned a sample whose value prints as text
fetchSandwichesFallback(result) ==
    IF result.kind = "value" THEN
        LET sandwichData == JSONparse(result.text) IN
        IF sandwichData.ok /\ ~sandwichData.isArray
            THEN setSandwiches(sandwichData.value[1])
        ELSE UNCHANGED <<sandwiches, pendingSandwiches, pendingIsNew, localStorage,
                    saveDue>>
    ELSE UNCHANGED <<sandwiches, pendingSandwiches, pendingIsNew, localStorage,
                    saveDue>>

----------------------------------------------------------------------------
(* TimeSeriesAggregator: the balance series *)

Point(t, b) == [time |-> t, balance |-> b]

\* (mutant) the guard compares with > in place of >=
appendLivePoint_gt(prevData, newDataPoint) ==
    IF Len(prevData) > 0 /\ prevData[Len(prevData)].time > newDataPoint.time
        THEN prevData
    ELSE Append(prevData, newDataPoint)

\* the setBalanceChartData updater of fetchLatestBalance
appendLivePoint(prevData, newDataPoint) ==
    IF Len(prevData) > 0 /\ prevData[Len(prevData)].time >= newDataPoint.time
        THEN prevData
    ELSE Append(prevData, newDataPoint)

\* (mutant) a failed or empty query leaves a placeholder point
historicalData_placeholder(result) ==
    IF result.kind = "matrix" /\ Len(result.values) > 0 THEN result.values
    ELSE <<Point(1, 0)>>

\* what fetchHistoricalBalance stores for the outcome of its rangeQuery
historicalData(result) ==
    IF result.kind = "matrix" /\ Len(result.values) > 0 THEN result.values
    ELSE <<>>

----------------------------------------------------------------------------
(* Rate snapshot: fetchProfitPerHour *)

timeRanges == <<"1h", "3h", "6h", "12h", "24h">>

\* const profits = {}
EmptyMap == [range \in {} |-> 0]

\* a fetchProfitPerHour call: profits is its local object, next the index of
\* the range whose query it awaits; a slot holds no call, a call that awaits
\* a query, or the call that returned in it last
NoRateFetch == [state |-> "idle", next |-> 0, profits |-> EmptyMap]
NewRateFetch == [state |-> "running", next |-> 1, profits |-> EmptyMap]

RateCalls == 1..MaxRateCalls
FreeCalls == {call \in RateCalls : rateFetches[call].state /= "running"}
\* the slot a new call takes
NewCall == CHOOSE call \in FreeCalls : \A other \in FreeCalls : call <= other

\* (mutant) a query that fails or returns nothing leaves its range out
recordProfit_skipsFailure(profits, range, result) ==
    IF result.kind = "vector" /\ result.hasValue
        THEN profits @@ (range :> result.value)
    ELSE profits

\* one iteration of the loop, once its instantQuery has settled: the query
\* threw, returned no vector, a sample without a value, or a value
recordProfit(profits, range, result) ==
    IF result.kind = "vector" /\ result.hasValue
        THEN profits @@ (range :> result.value)
    ELSE profits @@ (range :> 0)

----------------------------------------------------------------------------
(* Profit-rate series: fetchProfitRate *)

Sample(t, v) == [time |-> t, value |-> v]
ProfitPoint(t, v) == [time |-> t, profit |-> v]

\* what fetchProfitRate stores for the outcome of its rangeQuery:
\* series.values.map(val => ({time: val.time.getTime(), profit: val.value})),
\* or [] when the query threw or returned no series
profitData(result) ==
    IF result.kind = "matrix"
        THEN [i \in 1..Len(result.values) |->
                 ProfitPoint(result.values[i].time, result.values[i].value)]
    ELSE <<>>

----------------------------------------------------------------------------
(* Inputs *)

Payloads == 0..MaxPayload

\* a cached array of n records with slots 1..n
CachedRecords(n) == [i \in 1..n |-> Rec(i, 0)]

\* unparseable text
Garbage == <<LBRACE>>

\* the arrays a cache may hold: one with a repeated slot, two with elements
\* that are no records, and arrays of records up to and beyond the capacity
CachedArrays ==
    {<<Rec(1, 0), Rec(1, 1)>>, <<Rec(1, 0), PlainObject>>, <<Number(3)>>}
    \cup {CachedRecords(n) : n \in {0, 1, 2, Capacity - 1, Capacity, Capacity + 2}}

\* the contents localStorage may hold when the component is constructed
StoreCaches ==
    {Absent, Unreadable, Stored(<<>>), Stored(Garbage),
     Stored(stringifyValue(PlainObject)), Stored(stringifyValue(Number(7)))}
    \cup {Stored(JSONstringify(arr)) : arr \in CachedArrays}

\* slots of inbound records: two that the cached arrays hold, and new ones
NewSlots == {100 + k : k \in 1..MaxNewSlots}
StoreValues ==
    {Rec(s, p) : s \in {1, 2} \cup NewSlots, p \in Payloads}
    \cup {PlainObject, Number(5)}

\* the contents from which getInitialSandwiches returns the empty list
EmptyCaches ==
    {Absent, Unreadable, Stored(<<>>), Stored(Garbage),
     Stored(stringifyValue(PlainObject)), Stored(JSONstringify(<<>>))}

\* caches and inbound values for the appends whose writes may fail: a
\* retained slot, new slots, and an object that is no record
CacheCaches ==
    {Absent, Unreadable}
    \cup {Stored(JSONstringify(CachedRecords(n))) : n \in {2, Capacity}}
CacheValues == {Rec(s, 0) : s \in {1} \cup NewSlots} \cup {PlainObject}

FeedCaches == {Absent}
FeedTexts == {Garbage, stringifyValue(PlainObject), stringifyValue(Rec(1, 0))}
FeedPolls ==
    {[kind |-> "error", text |-> <<>>], [kind |-> "empty", text |-> <<>>],
     [kind |-> "value", text |-> stringifyValue(Number(5))],
     [kind |-> "value", text |-> stringifyValue(Rec(1, 1))]}

\* message data: unparseable, an object without data.sandwich, a number, an
\* array holding a record, and a record
EventTexts ==
    FeedTexts \cup {stringifyValue(Number(5)), JSONstringify(<<Rec(1, 0)>>)}

\* the fallback query throws, returns no sample, or a numeric sample
NumericPolls == {r \in FeedPolls : r.kind /= "value"}
                \cup {[kind |-> "value", text |-> stringifyValue(Number(5))]}

\* outcomes of the fallback query: it throws, returns no sample, or a sample
\* whose value prints as a number, as unparseable text, as an object without
\* data.sandwich, or as a record of a slot that a message may have brought
\* before or of a new slot
PollResults ==
    FeedPolls
    \cup {[kind |-> "value", text |-> Garbage],
          [kind |-> "value", text |-> stringifyValue(PlainObject)]}
    \cup {[kind |-> "value", text |-> stringifyValue(Rec(s, 1))] : s \in NewSlots}

\* message data: a record
RecordTexts == {stringifyValue(Rec(1, 0))}

Times == 1..MaxTime

\* the points of the times in ts above t, ascending, each with balance 0
RECURSIVE Ascending(_, _)
Ascending(ts, t) ==
    IF t > MaxTime THEN <<>>
    ELSE (IF t \in ts THEN <<Point(t, 0)>> ELSE <<>>) \o Ascending(ts, t + 1)

\* outcomes of the range query: it throws, returns no series, or returns one
\* series, whose samples Prometheus orders by strictly increasing time
RangeResults ==
    {[kind |-> "error", values |-> <<>>], [kind |-> "empty", values |-> <<>>]}
    \cup {[kind |-> "matrix", values |-> Ascending(ts, 1)] : ts \in SUBSET Times}

\* outcomes of the live instant query
LiveResults ==
    {[kind |-> "error", point |-> Point(0, 0)], [kind |-> "empty", point |-> Point(0, 0)]}
    \cup {[kind |-> "vector", point |-> Point(t, b)] : t \in Times, b \in {0, 1}}

\* outcomes of the range query of fetchProfitRate: it throws, returns no
\* series, or one series of samples
ProfitResults ==
    {[kind |-> "error", values |-> <<>>], [kind |-> "empty", values |-> <<>>],
     [kind |-> "matrix", values |-> <<Sample(1, 0), Sample(2, 1)>>],
     [kind |-> "matrix", values |-> <<Sample(2, 1), Sample(3, 1)>>]}

Tabs == {"Balance", "Profit Rate"}

\* outcomes of the instant query of one range
RateResults ==
    {[kind |-> "error", hasValue |-> FALSE, value |-> 0],
     [kind |-> "empty", hasValue |-> FALSE, value |-> 0],
     [kind |-> "vector", hasValue |-> FALSE, value |-> 0]}
    \cup {[kind |-> "vector", hasValue |-> TRUE, value |-> v] : v \in 1..MaxProfit}

----------------------------------------------------------------------------
(* History: the event a step handles and the input it carries.  A step    *)
(* that handles none of these events records NoEvent.  The history is     *)
(* kept in the specifications whose properties read it; in the others it  *)
(* stays Unobserved.                                                       *)

Event(kind) ==
    [kind |-> kind, url |-> "none", code |-> 0, error |-> FALSE,
     attached |-> FALSE, fallback |-> FALSE, text |-> <<>>,
     result |-> "none", values |-> <<>>, range |-> "none", value |-> 0,
     call |-> 0]

NoEvent == Event("none")
Unobserved == Event("unobserved")

\* the history after a step that handles event e
Record(e) == IF lastEvent = Unobserved THEN Unobserved ELSE e

\* an open event; fallback: both intervals of fallback mode were running
OpenEvent(url, fallback) ==
    [Event("open") EXCEPT !.url = url, !.fallback = fallback]

\* a close event with its code; error: an error event of the same socket
\* was handled just before it; attached: the socket's onclose is the
\* handler connectWebSocket assigned
CloseEvent(url, code, error, attached) ==
    [Event("close") EXCEPT !.url = url, !.code = code, !.error = error,
                           !.attached = attached]

\* a message event with its data
MessageEvent(text) == [Event("message") EXCEPT !.text = text]

\* a call updateSandwiches(newSandwich)
AppendEvent(newSandwich) ==
    [Event("append") EXCEPT !.text = stringifyValue(newSandwich)]

\* a run of the save effect, whose setItem succeeds or throws
SaveEvent(writeOk) ==
    [Event("save") EXCEPT !.result = IF writeOk THEN "written" ELSE "failed"]

\* the settled instantQuery of a fetchSandwichesFallback call
PollEvent(result) ==
    [Event("poll") EXCEPT !.result = result.kind, !.text = result.text]

\* the settled rangeQuery of the fetchProfitRate call of an activation
ProfitRateEvent(activation, result) ==
    [Event("profitRate") EXCEPT !.result = result.kind, !.value = activation]

\* the settled rangeQuery of fetchHistoricalBalance
HistoryEvent(result) ==
    [Event("history") EXCEPT !.result = result.kind, !.values = result.values]

\* the settled instantQuery of the fetchProfitPerHour call `call` for `range`
RateEvent(call, range, result) ==
    [Event("rate") EXCEPT !.call = call, !.range = range, !.value = result.value,
                          !.result = IF result.kind = "vector" /\ ~result.hasValue
                                         THEN "novalue" ELSE result.kind]

----------------------------------------------------------------------------
(* Actions *)

InitWith(caches, history) ==
    /\ phase = "init"
    /\ localStorage \in caches
    /\ sandwiches = <<>>
    /\ pendingSandwiches = <<>>
    /\ pendingIsNew = FALSE
    /\ saveDue = FALSE
    /\ websocket = NoSocket
    /\ stale = EmptyBag
    /\ reconnectAttempts = 0
    /\ reconnectTimers = EmptyBag
    /\ fallbackIntervalId = 0
    /\ reconnectIntervalId = 0
    /\ initialFallbackIntervalId = 0
    /\ pollIntervals = {}
    /\ periodicIntervals = {}
    /\ backupIntervals = {}
    /\ pollsInFlight = 0
    /\ balanceChartData = <<>>
    /\ historyFetch = "idle"
    /\ liveTimer = "none"
    /\ liveInFlight = 0
    /\ profitPerHour = EmptyMap
    /\ rateFetches = [call \in RateCalls |-> NoRateFetch]
    /\ rateInterval = FALSE
    /\ activeBalanceTab = "Balance"
    /\ isProfitRateLoading = TRUE
    /\ profitRateData = <<>>
    /\ profitFetches = {}
    /\ activations = 0
    /\ fetchedProfit = <<>>
    /\ closesSinceOpen = 0
    /\ lastEvent = history

\* the first render and the mount effects: useState(getInitialSandwiches),
\* the JSX over sandwiches, then fetchHistoricalBalance(), the live-balance
\* timeout, fetchProfitPerHour() with its interval, the save effect,
\* connectWebSocket(primaryWsUrl) and the backup
\* setInterval(fetchSandwichesFallback, 30000)
Mount(writes) ==
    /\ phase = "init"
    /\ lastEvent' = Record(NoEvent)
    /\ sandwiches' = getInitialSandwiches(localStorage)
    /\ pendingSandwiches' = sandwiches'
    /\ pendingIsNew' = FALSE
    /\ saveDue' = FALSE
    /\ IF canRender(sandwiches') THEN
          /\ phase' = "mounted"
          /\ \E writeOk \in writes :
                localStorage' = saveEffect(localStorage, sandwiches', writeOk)
          /\ connectWebSocket(primaryWsUrl)
          /\ initialFallbackIntervalId' = NewHandle(backupIntervals)
          /\ backupIntervals' = backupIntervals \cup {NewHandle(backupIntervals)}
          /\ historyFetch' = "pending"
          /\ liveTimer' = "grace"
          /\ rateFetches' = [rateFetches EXCEPT ![NewCall] = NewRateFetch]
          /\ rateInterval' = TRUE
          /\ UNCHANGED profitPerHour
          /\ UNCHANGED viewVars
          /\ UNCHANGED <<reconnectAttempts, reconnectTimers, fallbackIntervalId,
                         reconnectIntervalId, pollIntervals, periodicIntervals,
                         pollsInFlight, balanceChartData, liveInFlight,
                         closesSinceOpen>>
       ELSE
          /\ phase' = "crashed"
          /\ UNCHANGED <<localStorage, feedVars, seriesVars, rateVars, viewVars>>

\* a direct call updateSandwiches(newSandwich)
UpdateSandwichesCall(values) ==
    /\ phase \in {"mounted", "unmounted"}
    /\ \E newSandwich \in values :
          /\ setSandwiches(newSandwich)
          /\ lastEvent' = Record(AppendEvent(newSandwich))
    /\ UNCHANGED <<phase, feedVars, seriesVars, rateVars, viewVars>>

\* the open event of the latest socket
SocketOpen ==
    /\ websocket.readyState = "CONNECTING"
    /\ websocket' = [websocket EXCEPT !.readyState = "OPEN"]
    /\ onopen
    /\ closesSinceOpen' = 0
    /\ lastEvent' = Record(OpenEvent(websocket.url,
                                     pollIntervals /= {} /\ periodicIntervals /= {}))
    /\ UNCHANGED <<storeVars, seriesVars, rateVars, viewVars, stale, reconnectTimers,
                   pollsInFlight>>

\* a message event of the latest socket
SocketMessage(texts) ==
    /\ websocket.readyState = "OPEN"
    /\ \E text \in texts :
          /\ onmessage(text)
          /\ lastEvent' = Record(MessageEvent(text))
    /\ UNCHANGED <<phase, feedVars, seriesVars, rateVars, viewVars>>

\* the latest socket's connection fails (the handshake fails, or an open
\* connection is lost): an error event, then a close event with code 1006
SocketFail ==
    /\ isLive(websocket)
    /\ onerror(pollsInFlight) <= MaxPolls
    /\ websocket' = [websocket EXCEPT !.readyState = "CLOSED"]
    /\ onclose(websocket.url, 1006, websocket.onclose, onerror(pollsInFlight))
    /\ pollsInFlight' <= MaxPolls
    /\ lastEvent' = Record(CloseEvent(websocket.url, 1006, TRUE, websocket.onclose))
    /\ UNCHANGED <<storeVars, seriesVars, rateVars, viewVars, stale, initialFallbackIntervalId,
                   backupIntervals>>

\* the server closes the latest, open socket: a close event with its code
SocketClose ==
    /\ websocket.readyState = "OPEN"
    /\ websocket' = [websocket EXCEPT !.readyState = "CLOSED"]
    /\ \E code \in CloseCodes :
          /\ onclose(websocket.url, code, websocket.onclose, pollsInFlight)
          /\ lastEvent' =
                Record(CloseEvent(websocket.url, code, FALSE, websocket.onclose))
    /\ pollsInFlight' <= MaxPolls
    /\ UNCHANGED <<storeVars, seriesVars, rateVars, viewVars, stale, initialFallbackIntervalId,
                   backupIntervals>>

\* the events of a socket on which close() was called: error and close 1006
\* when it was still connecting, else the close event ending the handshake
ClosingEvents(s) ==
    IF s.failing THEN
        /\ onerror(pollsInFlight) <= MaxPolls
        /\ onclose(s.url, 1006, s.onclose, onerror(pollsInFlight))
        /\ lastEvent' = Record(CloseEvent(s.url, 1006, TRUE, s.onclose))
    ELSE \E code \in CloseCodes :
            /\ onclose(s.url, code, s.onclose, pollsInFlight)
            /\ lastEvent' = Record(CloseEvent(s.url, code, FALSE, s.onclose))

\* the latest socket, closed by the cleanup, finishes closing
SocketClosed ==
    /\ websocket.readyState = "CLOSING"
    /\ websocket' = [websocket EXCEPT !.readyState = "CLOSED"]
    /\ ClosingEvents(websocket)
    /\ pollsInFlight' <= MaxPolls
    /\ UNCHANGED <<storeVars, seriesVars, rateVars, viewVars, stale, initialFallbackIntervalId,
                   backupIntervals>>

\* a socket replaced by connectWebSocket finishes closing
StaleSocketClosed ==
    /\ \E s \in BagToSet(stale) :
          /\ s.readyState = "CLOSING"
          /\ stale' = stale (-) SetToBag({s})
          /\ ClosingEvents(s)
    /\ pollsInFlight' <= MaxPolls
    /\ UNCHANGED <<storeVars, seriesVars, rateVars, viewVars, websocket, initialFallbackIntervalId,
                   backupIntervals>>

\* setTimeout(() => connectWebSocket(nextUrl), reconnectDelay) fires
ReconnectTimer ==
    /\ \E url \in BagToSet(reconnectTimers) :
          /\ reconnectTimers' = reconnectTimers (-) SetToBag({url})
          /\ connectWebSocket(url)
    /\ lastEvent' = Record(NoEvent)
    /\ UNCHANGED <<storeVars, seriesVars, rateVars, viewVars, reconnectAttempts, fallbackIntervalId,
                   reconnectIntervalId, initialFallbackIntervalId, pollIntervals,
                   periodicIntervals, backupIntervals, pollsInFlight,
                   closesSinceOpen>>

\* the 30s periodic-reconnect interval of fallback mode ticks; the attempt
\* it adds is within the bound of the model
PeriodicReconnect ==
    /\ periodicIntervals /= {}
    /\ reconnectAttempts' = 0
    /\ connectWebSocket(primaryWsUrl)
    /\ lastEvent' = Record(NoEvent)
    /\ UNCHANGED <<storeVars, seriesVars, rateVars, viewVars, reconnectTimers, fallbackIntervalId,
                   reconnectIntervalId, initialFallbackIntervalId, pollIntervals,
                   periodicIntervals, backupIntervals, pollsInFlight,
                   closesSinceOpen>>
    /\ AttemptsInProgress' <= MaxInProgress

\* the 30s backup interval set at mount ticks: fetchSandwichesFallback()
\* starts its query
BackupPollTick ==
    /\ backupIntervals /= {}
    /\ pollsInFlight < MaxPolls
    /\ pollsInFlight' = pollsInFlight + 1
    /\ lastEvent' = Record(NoEvent)
    /\ UNCHANGED <<storeVars, seriesVars, rateVars, viewVars, websocket, stale, reconnectAttempts,
                   reconnectTimers, fallbackIntervalId, reconnectIntervalId,
                   initialFallbackIntervalId, pollIntervals, periodicIntervals,
                   backupIntervals, closesSinceOpen>>

\* the 10s interval of fallback mode ticks: fetchSandwichesFallback() starts
\* its query
PollTick ==
    /\ pollIntervals /= {}
    /\ pollsInFlight < MaxPolls
    /\ pollsInFlight' = pollsInFlight + 1
    /\ lastEvent' = Record(NoEvent)
    /\ UNCHANGED <<storeVars, seriesVars, rateVars, viewVars, websocket, stale, reconnectAttempts,
                   reconnectTimers, fallbackIntervalId, reconnectIntervalId,
                   initialFallbackIntervalId, pollIntervals, periodicIntervals,
                   backupIntervals, closesSinceOpen>>

\* the instantQuery of a fetchSandwichesFallback call settles
PollSettles(polls) ==
    /\ pollsInFlight > 0
    /\ pollsInFlight' = pollsInFlight - 1
    /\ \E result \in polls :
          /\ fetchSandwichesFallback(result)
          /\ lastEvent' = Record(PollEvent(result))
    /\ UNCHANGED <<phase, seriesVars, rateVars, viewVars, websocket, stale, reconnectAttempts,
                   reconnectTimers, fallbackIntervalId, reconnectIntervalId,
                   initialFallbackIntervalId, pollIntervals, periodicIntervals,
                   backupIntervals, closesSinceOpen>>

\* React renders the component with the queued updates of `sandwiches`
\* applied and commits, when the queue has made a new array; a save effect
\* still pending from the render before runs first, and the save effect of
\* this render is scheduled because `sandwiches` is a new array
Render(writes) ==
    /\ phase = "mounted"
    /\ pendingIsNew
    /\ \E writeOk \in (IF saveDue THEN writes ELSE {TRUE}) :
          /\ flushPassiveEffects(writeOk)
          /\ lastEvent' = Record(IF saveDue THEN SaveEvent(writeOk) ELSE NoEvent)
    /\ sandwiches' = pendingSandwiches
    /\ pendingIsNew' = FALSE
    /\ saveDue' = effectDue(pendingIsNew)
    /\ UNCHANGED <<phase, pendingSandwiches, feedVars, seriesVars, rateVars,
                   viewVars>>

\* the save effect scheduled by the last render runs
SaveEffectRuns(writes) ==
    /\ phase = "mounted"
    /\ saveDue
    /\ \E writeOk \in writes :
          /\ flushPassiveEffects(writeOk)
          /\ lastEvent' = Record(SaveEvent(writeOk))
    /\ saveDue' = FALSE
    /\ UNCHANGED <<phase, sandwiches, pendingSandwiches, pendingIsNew, feedVars, seriesVars,
                   rateVars, viewVars>>

\* the component unmounts: a save effect still pending runs, the updates
\* still queued are dropped, then the cleanup of the WebSocket effect
\* (onclose replaced, close(), three clearInterval calls), of the
\* live-balance effect (clearTimeout, clearInterval) and of the profit
\* effect (clearInterval)
Cleanup(writes) ==
    /\ phase = "mounted"
    /\ phase' = "unmounted"
    /\ \E writeOk \in (IF saveDue THEN writes ELSE {TRUE}) :
          /\ flushPassiveEffects(writeOk)
          /\ lastEvent' = Record(IF saveDue THEN SaveEvent(writeOk) ELSE NoEvent)
    /\ saveDue' = FALSE
    /\ pendingSandwiches' = sandwiches
    /\ pendingIsNew' = FALSE
    /\ websocket' = IF websocket = NoSocket THEN websocket
                    ELSE closeSocket([websocket EXCEPT !.onclose = FALSE])
    /\ pollIntervals' = pollIntervals \ {fallbackIntervalId}
    /\ periodicIntervals' = periodicIntervals \ {reconnectIntervalId}
    /\ backupIntervals' = backupIntervals \ {initialFallbackIntervalId}
    /\ liveTimer' = "cleared"
    /\ rateInterval' = FALSE
    /\ UNCHANGED <<profitPerHour, rateFetches>>
    /\ UNCHANGED viewVars
    /\ UNCHANGED <<sandwiches, stale, reconnectAttempts,
                   reconnectTimers, fallbackIntervalId, reconnectIntervalId,
                   initialFallbackIntervalId, pollsInFlight, closesSinceOpen,
                   balanceChartData, historyFetch, liveInFlight>>

\* the rangeQuery of fetchHistoricalBalance settles; a state update of an
\* unmounted component is dropped
HistorySettles ==
    /\ historyFetch = "pending"
    /\ historyFetch' = "done"
    /\ \E result \in RangeResults :
          /\ balanceChartData' = IF phase = "mounted" THEN historicalData(result)
                                 ELSE balanceChartData
          /\ lastEvent' = Record(HistoryEvent(result))
    /\ UNCHANGED <<storeVars, feedVars, rateVars, viewVars, liveTimer, liveInFlight>>

\* the 5s timeout fires: the first fetchLatestBalance starts its query and
\* the 30s interval is set
LiveStart ==
    /\ liveTimer = "grace"
    /\ liveInFlight < MaxLive
    /\ liveTimer' = "interval"
    /\ liveInFlight' = liveInFlight + 1
    /\ lastEvent' = Record(NoEvent)
    /\ UNCHANGED <<storeVars, feedVars, rateVars, viewVars, balanceChartData, historyFetch>>

\* the 30s interval ticks: fetchLatestBalance starts its query
LiveTick ==
    /\ liveTimer = "interval"
    /\ liveInFlight < MaxLive
    /\ liveTimer' = "interval"
    /\ liveInFlight' = liveInFlight + 1
    /\ lastEvent' = Record(NoEvent)
    /\ UNCHANGED <<storeVars, feedVars, rateVars, viewVars, balanceChartData, historyFetch>>

\* the instantQuery of a fetchLatestBalance call settles
LiveSettles ==
    /\ liveInFlight > 0
    /\ liveInFlight' = liveInFlight - 1
    /\ \E result \in LiveResults :
          balanceChartData' =
              IF phase = "mounted" /\ result.kind = "vector"
                  THEN appendLivePoint(balanceChartData, result.point)
              ELSE balanceChartData
    /\ lastEvent' = Record(NoEvent)
    /\ UNCHANGED <<storeVars, feedVars, rateVars, viewVars, historyFetch, liveTimer>>

\* the 60s interval of the profit effect ticks: fetchProfitPerHour() starts,
\* with its own profits object, whether or not an earlier call still awaits
\* a query
RateTick ==
    /\ rateInterval
    /\ FreeCalls /= {}
    /\ rateFetches' = [rateFetches EXCEPT ![NewCall] = NewRateFetch]
    /\ lastEvent' = Record(NoEvent)
    /\ UNCHANGED <<storeVars, feedVars, seriesVars, viewVars, profitPerHour,
                   rateInterval>>

\* the instantQuery that a call awaits for its current range settles; after
\* the last range, setProfitPerHour(profits), which an unmounted component
\* drops
RateSettles ==
    /\ \E call \in RateCalls, result \in RateResults :
          /\ rateFetches[call].state = "running"
          /\ LET rateFetch == rateFetches[call]
                 range == timeRanges[rateFetch.next]
                 profits == recordProfit(rateFetch.profits, range, result)
             IN  /\ lastEvent' = Record(RateEvent(call, range, result))
                 /\ IF rateFetch.next < Len(timeRanges)
                       THEN /\ rateFetches' =
                                  [rateFetches EXCEPT ![call].next = @ + 1,
                                                      ![call].profits = profits]
                            /\ UNCHANGED profitPerHour
                    ELSE /\ rateFetches' =
                               [rateFetches EXCEPT ![call].state = "done",
                                                   ![call].profits = profits]
                         /\ profitPerHour' = IF phase = "mounted" THEN profits
                                             ELSE profitPerHour
    /\ UNCHANGED <<storeVars, feedVars, seriesVars, viewVars, rateInterval>>

\* a click on a tab button: setActiveBalanceTab(tab).  The click is a
\* discrete event, which React renders synchronously: a save effect still
\* pending runs first, the updates of `sandwiches` queued by the socket and
\* the polls stay queued for their own render.  When the state changes,
\* the effect on [activeBalanceTab] runs, and for 'Profit Rate' it calls
\* fetchProfitRate, which sets the loading flag and starts its rangeQuery
SelectTab(writes) ==
    /\ phase = "mounted"
    /\ \E writeOk \in (IF saveDue THEN writes ELSE {TRUE}) :
          /\ flushPassiveEffects(writeOk)
          /\ lastEvent' = Record(IF saveDue THEN SaveEvent(writeOk) ELSE NoEvent)
    /\ saveDue' = FALSE
    /\ \E tab \in Tabs :
          /\ activeBalanceTab' = tab
          /\ IF tab /= activeBalanceTab /\ tab = "Profit Rate" THEN
                /\ activations < MaxActivations
                /\ activations' = activations + 1
                /\ profitFetches' = profitFetches \cup {activations'}
                /\ isProfitRateLoading' = TRUE
             ELSE UNCHANGED <<activations, profitFetches, isProfitRateLoading>>
    /\ UNCHANGED <<phase, sandwiches, pendingSandwiches, pendingIsNew, feedVars,
                   seriesVars, rateVars, profitRateData, fetchedProfit>>

\* the rangeQuery of a fetchProfitRate call settles: setProfitRateData and,
\* in the finally block, setIsProfitRateLoading(false); a state update of
\* an unmounted component is dropped
ProfitRateSettles ==
    /\ \E activation \in profitFetches, result \in ProfitResults :
          /\ profitFetches' = profitFetches \ {activation}
          /\ fetchedProfit' = fetchedProfit @@ (activation :> profitData(result))
          /\ profitRateData' = IF phase = "mounted" THEN profitData(result)
                               ELSE profitRateData
          /\ lastEvent' = Record(ProfitRateEvent(activation, result))
    /\ isProfitRateLoading' = IF phase = "mounted" THEN FALSE
                              ELSE isProfitRateLoading
    /\ UNCHANGED <<storeVars, feedVars, seriesVars, rateVars, activeBalanceTab,
                   activations>>

----------------------------------------------------------------------------
(* Specifications *)

\* the retained list: construction from any cache content, then appends
InitStore == InitWith(StoreCaches, Unobserved)
NextStore ==
    \/ Mount(BOOLEAN)
    \/ UpdateSandwichesCall(StoreValues)
    \/ Render(BOOLEAN)
    \/ SaveEffectRuns(BOOLEAN)
    \/ Cleanup(BOOLEAN)
SpecStore == InitStore /\ [][NextStore]_vars

\* the retained list when every localStorage.setItem succeeds, with the
\* clicks that make React run a pending save effect
InitWrite == InitWith(StoreCaches, Unobserved)
NextWrite ==
    \/ Mount({TRUE})
    \/ UpdateSandwichesCall(StoreValues)
    \/ Render({TRUE})
    \/ SaveEffectRuns({TRUE})
    \/ SelectTab({TRUE})
    \/ Cleanup({TRUE})
SpecWrite == InitWrite /\ [][NextWrite]_vars

\* the retained list when any localStorage.setItem may throw, with the
\* history of the appends
InitCache == InitWith(CacheCaches, NoEvent)
NextCache ==
    \/ Mount(BOOLEAN)
    \/ UpdateSandwichesCall(CacheValues)
    \/ Render(BOOLEAN)
    \/ SaveEffectRuns(BOOLEAN)
    \/ SelectTab(BOOLEAN)
    \/ Cleanup(BOOLEAN)
SpecCache == InitCache /\ [][NextCache]_vars

\* the retained list, starting empty
InitAppend == InitWith(EmptyCaches, Unobserved)
SpecAppend == InitAppend /\ [][NextStore]_vars

\* the feed client
InitFeed == InitWith(FeedCaches, Unobserved)
NextFeed ==
    \/ Mount({TRUE})
    \/ SocketOpen
    \/ SocketMessage(FeedTexts)
    \/ SocketFail
    \/ SocketClose
    \/ SocketClosed
    \/ StaleSocketClosed
    \/ ReconnectTimer
    \/ PeriodicReconnect
    \/ PollTick
    \/ BackupPollTick
    \/ PollSettles(FeedPolls)
    \/ Render({TRUE})
    \/ SaveEffectRuns({TRUE})
    \/ Cleanup({TRUE})
SpecFeed == InitFeed /\ [][NextFeed]_vars

\* the feed client while the component stays mounted, with the history of
\* the events it handles; the fallback query returns what Prometheus
\* returns, a numeric sample
InitEvents == InitWith(FeedCaches, NoEvent)
NextEvents ==
    \/ Mount({TRUE})
    \/ SocketOpen
    \/ SocketMessage(EventTexts)
    \/ SocketFail
    \/ SocketClose
    \/ StaleSocketClosed
    \/ ReconnectTimer
    \/ PeriodicReconnect
    \/ PollTick
    \/ BackupPollTick
    \/ PollSettles(NumericPolls)
    \/ Render({TRUE})
    \/ SaveEffectRuns({TRUE})
SpecEvents == InitEvents /\ [][NextEvents]_vars

\* the fallback polls of the backup interval next to the messages of an
\* open socket, with the history of the settled queries
InitPolls == InitWith(FeedCaches, NoEvent)
NextPolls ==
    \/ Mount({TRUE})
    \/ SocketOpen
    \/ SocketMessage(RecordTexts)
    \/ BackupPollTick
    \/ PollSettles(PollResults)
    \/ Render({TRUE})
    \/ SaveEffectRuns({TRUE})
    \/ Cleanup({TRUE})
SpecPolls == InitPolls /\ [][NextPolls]_vars

\* the feed client up to and after the cleanup, with the history of the
\* events it handles
InitErrors == InitWith(FeedCaches, NoEvent)
NextErrors ==
    \/ Mount({TRUE})
    \/ SocketOpen
    \/ SocketFail
    \/ SocketClosed
    \/ StaleSocketClosed
    \/ ReconnectTimer
    \/ PeriodicReconnect
    \/ PollSettles(NumericPolls)
    \/ Cleanup({TRUE})
SpecErrors == InitErrors /\ [][NextErrors]_vars

\* the feed client when every connection attempt fails and the component
\* stays mounted.  Every timer that is set fires, every connection attempt
\* ends and every query settles, the queries in flight settling faster than
\* the intervals tick; a tick that the bounds of the model hold back comes
\* once they allow it, hence the strong fairness.
InitFailing == InitWith(FeedCaches, Unobserved)
NextFailing ==
    \/ Mount({TRUE})
    \/ SocketFail
    \/ StaleSocketClosed
    \/ ReconnectTimer
    \/ PeriodicReconnect
    \/ PollTick
    \/ BackupPollTick
    \/ PollSettles(NumericPolls)
SpecFailing ==
    /\ InitFailing
    /\ [][NextFailing]_vars
    /\ WF_vars(Mount({TRUE}))
    /\ SF_vars(SocketFail)
    /\ SF_vars(StaleSocketClosed)
    /\ SF_vars(ReconnectTimer)
    /\ SF_vars(PeriodicReconnect)
    /\ SF_vars(PollTick)
    /\ SF_vars(BackupPollTick)
    /\ WF_vars(PollSettles(NumericPolls))
    /\ \A k \in 0..(MaxPolls - 1) :
          SF_vars(PollSettles(NumericPolls) /\ pollsInFlight' = k)

\* the balance series
InitSeries == InitWith(FeedCaches, NoEvent)
NextSeries ==
    \/ Mount({TRUE})
    \/ HistorySettles
    \/ LiveStart
    \/ LiveTick
    \/ LiveSettles
    \/ Cleanup({TRUE})
SpecSeries == InitSeries /\ [][NextSeries]_vars

\* the rate snapshot
InitRates == InitWith(FeedCaches, NoEvent)
NextRates ==
    \/ Mount({TRUE})
    \/ RateSettles
    \/ RateTick
    \/ Cleanup({TRUE})
SpecRates == InitRates /\ [][NextRates]_vars

\* the profit-rate view
InitView == InitWith(FeedCaches, NoEvent)
NextView ==
    \/ Mount({TRUE})
    \/ SelectTab({TRUE})
    \/ ProfitRateSettles
    \/ Cleanup({TRUE})
SpecView == InitView /\ [][NextView]_vars

----------------------------------------------------------------------------
(* Properties of the retained list *)

Slots(list) == {list[i].slot : i \in 1..Len(list)}

\* C1: starting from an empty retained list, after any sequence of
\* updateSandwiches calls no two retained records have the same slot.
NoDuplicateSlots ==
    \A i, j \in 1..Len(sandwiches) :
        i /= j => sandwiches[i].slot /= sandwiches[j].slot

\* several records are retained, a cached slot and a new one among them
SeveralRetained ==
    /\ phase = "mounted"
    /\ Len(sandwiches) >= 3
    /\ {1, 101} \subseteq Slots(sandwiches)

\* C2: after the load from any cache content, and after any sequence of
\* appends, the retained list holds at most 50 records.
AtMostCapacity == Len(sandwiches) <= Capacity

\* a record was appended to a full list loaded from the cache
AppendedAtCapacity ==
    /\ phase = "mounted"
    /\ Len(sandwiches) = Capacity
    /\ sandwiches[1].slot \in NewSlots
    /\ sandwiches[Capacity].slot = Capacity - 1

\* C9: for every retained list of at most 50 records with unique slots,
\* saving it and loading the saved text gives the same list in the same order.
SaveLoadRoundTrip ==
    (Len(sandwiches) <= Capacity /\ NoDuplicateSlots)
        => getInitialSandwiches(saveEffect(Absent, sandwiches, TRUE)) = sandwiches

\* a full list has been saved by the save effect
FullListSaved ==
    /\ phase = "mounted"
    /\ Len(sandwiches) = Capacity
    /\ NoDuplicateSlots
    /\ sandwiches[1].slot \in NewSlots
    /\ localStorage = Stored(JSONstringify(sandwiches))

\* what append(record) is to return for a list and a record with a sandwich
AppendResult(prev, record, next) ==
    IF record.slot \in Slots(prev) THEN next = prev
    ELSE /\ Len(next) = Min(Len(prev) + 1, Capacity)
         /\ next[1] = record
         /\ \A i \in 2..Len(next) : next[i] = prev[i - 1]

\* C10: appending a record whose slot is retained leaves the list exactly as
\* it was; any other record becomes the first element, the earlier records
\* keep their order, and the last one is evicted when the list held 50.  The
\* first conjunct is about the result of the updater for every record in
\* every mounted state; the second about every call, whose updater works on
\* the list the updaters queued before it have made; the third about the
\* render, which shows the list the queued updaters have made.
AppendContract ==
    /\ [](phase = "mounted" =>
            \A record \in {v \in StoreValues : hasSandwich(v)} :
                AppendResult(sandwiches, record, updateSandwiches(sandwiches, record)))
    /\ [][(phase = "mounted" /\ phase' = "mounted"
                /\ pendingSandwiches' /= pendingSandwiches) =>
            /\ hasSandwich(pendingSandwiches'[1])
            /\ AppendResult(pendingSandwiches, pendingSandwiches'[1],
                            pendingSandwiches')]_vars
    /\ [][(phase = "mounted" /\ sandwiches' /= sandwiches) =>
            sandwiches' = pendingSandwiches]_vars

\* the oldest record of a full list was evicted by an append: the new record
\* is first, the earlier ones follow in their order
EvictedOldest ==
    /\ phase = "mounted"
    /\ Len(sandwiches) = Capacity
    /\ sandwiches[1].slot \in NewSlots
    /\ sandwiches[2] = Rec(1, 0)
    /\ sandwiches[Capacity] = Rec(Capacity - 1, 0)

\* C14: while setItem succeeds (localStorage is accessible and no write
\* throws), once the save effect of the last render has run the cache holds
\* the serialization of the rendered list, which has at most 50 records:
\* after the mount and after every append that changed the list.  The
\* effect is due after every render that changes the list, and after every
\* render of a new array.
WriteThrough ==
    /\ []((phase = "mounted" /\ localStorage /= Unreadable /\ ~saveDue) =>
            /\ localStorage = Stored(JSONstringify(sandwiches))
            /\ Len(sandwiches) <= Capacity)
    /\ [][(/\ phase = "mounted" /\ phase' = "mounted"
            /\ (sandwiches' /= sandwiches \/ (pendingIsNew /\ ~pendingIsNew')))
            => saveDue']_vars

\* a record was appended to the two loaded from the cache, and the cache
\* holds the three
WrittenThrough ==
    /\ phase = "mounted"
    /\ ~saveDue
    /\ Len(sandwiches) = 3
    /\ sandwiches[1].slot \in NewSlots
    /\ <<sandwiches[2], sandwiches[3]>> = CachedRecords(2)
    /\ localStorage = Stored(JSONstringify(sandwiches))

\* what load() is to return for a cache content: the first 50 elements of
\* the array whose serialization the cache holds, the empty list otherwise
ExpectedLoad(store) ==
    IF \E arr \in CachedArrays : store = Stored(JSONstringify(arr))
        THEN LET arr == CHOOSE a \in CachedArrays : store = Stored(JSONstringify(a))
             IN  [i \in 1..Min(Len(arr), Capacity) |-> arr[i]]
    ELSE <<>>

\* C16: the load at construction returns the empty list when the cache entry
\* is absent, unreadable, empty, unparseable or not an array, and the first
\* 50 elements of the cached array otherwise; it returns for every content.
LoadNeverFails ==
    [][(phase = "init" /\ phase' /= "init") =>
        sandwiches' = ExpectedLoad(localStorage)]_vars

\* an array of 52 records was loaded as its first 50 (the save that followed
\* the load failed, so the cache still holds the 52)
LoadedClamped ==
    /\ phase = "mounted"
    /\ localStorage = Stored(JSONstringify(CachedRecords(Capacity + 2)))
    /\ sandwiches = CachedRecords(Capacity)

\* C21: for every cache content that is a JSON array, the list the load
\* returns, and every list reached from it by appends, has no two records
\* with the same slot.
UniqueSlotsAcrossRestart ==
    phase = "mounted" => Cardinality(Slots(sandwiches)) = Len(sandwiches)

\* C22: a cached array with an element that has no data.sandwich is
\* discarded by the load: once the component is constructed it is mounted,
\* every retained element is a record with a data.sandwich payload, and no
\* element of the cache makes a later step throw.
MalformedCacheDropped ==
    phase /= "init" =>
        /\ phase /= "crashed"
        /\ \A i \in 1..Len(sandwiches) : hasSandwich(sandwiches[i])

\* the record an append event carries
Appended == JSONparse(lastEvent'.text).value[1]

\* C23: a run of the save effect whose write throws leaves the cache as it
\* was, the component mounted and the rendered list, with the appended
\* record, as it is; a run whose write succeeds stores the whole rendered
\* list, the records whose own writes failed included.  An append goes on
\* in the same way after a failed write: a record with a new slot becomes
\* the first element of the list the next render shows.
WriteFailureContained ==
    /\ [][lastEvent'.kind = "save" =>
            /\ phase' = "unmounted" \/ phase' = phase
            /\ sandwiches' = sandwiches \/ sandwiches' = pendingSandwiches
            /\ pendingSandwiches' = pendingSandwiches
                  \/ (phase' = "unmounted" /\ pendingSandwiches' = sandwiches)
            /\ IF lastEvent'.result = "written" /\ localStorage /= Unreadable
                  THEN localStorage' = Stored(JSONstringify(sandwiches))
               ELSE localStorage' = localStorage]_vars
    /\ [][(/\ phase = "mounted"
            /\ lastEvent'.kind = "append"
            /\ hasSandwich(Appended)
            /\ Appended.slot \notin Slots(pendingSandwiches)) =>
                /\ phase' = "mounted"
                /\ pendingSandwiches' =
                      slice(<<Appended>> \o pendingSandwiches, Capacity)
                /\ UNCHANGED <<sandwiches, localStorage>>]_vars
    /\ [][(phase = "mounted" /\ sandwiches' /= sandwiches) =>
            sandwiches' = pendingSandwiches]_vars

\* two records were appended to an empty list and rendered one by one, and
\* the write of each failed: both are retained, the cache holds the empty
\* list the mount stored
RetainedAfterFailures ==
    /\ phase = "mounted"
    /\ lastEvent.kind = "save"
    /\ lastEvent.result = "failed"
    /\ ~saveDue
    /\ Len(sandwiches) = 2
    /\ sandwiches[2] = Rec(1, 0)
    /\ sandwiches[1].slot \in NewSlots
    /\ localStorage = Stored(JSONstringify(<<>>))

----------------------------------------------------------------------------
(* Properties of the feed client *)

\* the socket is the one it was, or the one it was with its closing finished
SameSocket ==
    \/ websocket' = websocket
    \/ websocket' = [websocket EXCEPT !.readyState = "CLOSED"]

\* C3: once the cleanup has run (stop), no timer the client registered
\* fires and nothing changes its state: no reconnect timer fires or is set,
\* no socket is created, no interval is set, the attempt counter and the
\* retained list keep their values.
QuietAfterStop ==
    [][phase = "unmounted" =>
        /\ SameSocket
        /\ UNCHANGED <<reconnectAttempts, reconnectTimers, fallbackIntervalId,
                       reconnectIntervalId, pollIntervals, periodicIntervals,
                       backupIntervals, sandwiches, localStorage>>]_vars

FallbackPolling == pollIntervals /= {} /\ periodicIntervals /= {}

\* C4 as stated: the step that handles the 10th consecutive abnormal close
\* since the start, with no open in between, ends in fallback mode with the
\* 10s poll interval and the 30s periodic-reconnect interval running.
FallbackAfterTenCloses ==
    [][(closesSinceOpen = 9 /\ closesSinceOpen' = 10) => FallbackPolling']_vars

\* C4 amended: the 10th consecutive abnormal close still schedules a
\* reconnect; it is the step that handles the 11th that ends in fallback
\* mode with both intervals running.
FallbackAfterElevenCloses ==
    [][(closesSinceOpen = 10 /\ closesSinceOpen' = 11) =>
        (FallbackPolling' /\ ~FallbackPolling)]_vars

\* eleven abnormal closes in a row have been handled and both intervals run
ElevenClosesHandled ==
    /\ closesSinceOpen = 11
    /\ reconnectAttempts = maxReconnectAttempts
    /\ FallbackPolling
    /\ reconnectTimers = EmptyBag

\* C5: at most one 10s fallback-poll interval and at most one 30s
\* periodic-reconnect interval run at any time.
OneIntervalOfEachKind ==
    /\ Cardinality(pollIntervals) <= 1
    /\ Cardinality(periodicIntervals) <= 1

\* a further abnormal close was handled by the exhausted-attempts branch
\* while both intervals were running
ClosedAgainInFallback ==
    /\ closesSinceOpen = maxReconnectAttempts + 2
    /\ ~isLive(websocket)
    /\ stale = EmptyBag
    /\ reconnectTimers = EmptyBag
    /\ reconnectAttempts = maxReconnectAttempts
    /\ Cardinality(pollIntervals) = 1
    /\ Cardinality(periodicIntervals) = 1

\* the number of sockets in the bag that are connecting or open
RECURSIVE LiveIn(_, _)
LiveIn(kinds, bag) ==
    IF kinds = {} THEN 0
    ELSE LET s == CHOOSE k \in kinds : TRUE IN
         (IF isLive(s) THEN CopiesIn(s, bag) ELSE 0) + LiveIn(kinds \ {s}, bag)

LiveSockets == (IF isLive(websocket) THEN 1 ELSE 0) + LiveIn(BagToSet(stale), stale)

\* C6: at most one socket is connecting or open at any time.
AtMostOneLiveSocket == LiveSockets <= 1

\* connectWebSocket replaced a socket that was connecting or open, and the
\* new socket is live while the replaced one is still closing
ReplacedWhileLive ==
    /\ phase = "mounted"
    /\ isLive(websocket)
    /\ \E s \in BagToSet(stale) : s.readyState = "CLOSING" /\ s.onclose

\* C7: an event of a socket that connectWebSocket has replaced changes
\* nothing: not the attempt counter, not the reconnect timers, not the
\* intervals, and it issues no fallback poll.
ReplacedSocketIsDetached ==
    [][BagCardinality(stale') < BagCardinality(stale) =>
        UNCHANGED <<reconnectAttempts, reconnectTimers, fallbackIntervalId,
                    reconnectIntervalId, pollIntervals, periodicIntervals,
                    pollsInFlight, sandwiches>>]_vars

\* the endpoint that is not `url`
OtherEndpoint(url) == CHOOSE u \in {primaryWsUrl, fallbackWsUrl} : u /= url

\* C11: when the onclose handler of a socket handles a close event with a
\* code other than 1000 and 1005 while the attempt counter is below 10, the
\* counter grows by exactly one, exactly one reconnect timer is added, for
\* the endpoint other than the closed socket's, and the handler issues
\* exactly one fallback poll.  When the connection failed, the error event
\* that precedes the close event is handled in the same step and its handler
\* issues a poll of its own.
AbnormalCloseReconnects ==
    [][(/\ lastEvent'.kind = "close"
        /\ lastEvent'.attached
        /\ lastEvent'.code \notin {1000, 1005}
        /\ reconnectAttempts < maxReconnectAttempts) =>
            /\ reconnectAttempts' = reconnectAttempts + 1
            /\ reconnectTimers' =
                  reconnectTimers (+) SetToBag({OtherEndpoint(lastEvent'.url)})
            /\ pollsInFlight' =
                  pollsInFlight + 1 + (IF lastEvent'.error THEN 1 ELSE 0)
            /\ UNCHANGED <<fallbackIntervalId, reconnectIntervalId, pollIntervals,
                           periodicIntervals>>]_vars

\* an open socket to the fallback endpoint was closed with code 1001: one
\* attempt counted, one reconnect to the primary endpoint pending
AbnormalCloseHandled ==
    /\ lastEvent = CloseEvent(fallbackWsUrl, 1001, FALSE, TRUE)
    /\ reconnectAttempts = 1
    /\ CopiesIn(primaryWsUrl, reconnectTimers) = 1
    /\ CopiesIn(fallbackWsUrl, reconnectTimers) = 0
    /\ pollsInFlight >= 1

\* C12: a close event with code 1000 or 1005 schedules no reconnect, issues
\* no fallback poll, and leaves the attempt counter and every timer as they
\* were.
NormalCloseChangesNothing ==
    [][(lastEvent'.kind = "close" /\ lastEvent'.code \in {1000, 1005}) =>
        UNCHANGED <<reconnectAttempts, reconnectTimers, fallbackIntervalId,
                    reconnectIntervalId, initialFallbackIntervalId,
                    pollIntervals, periodicIntervals, backupIntervals,
                    pollsInFlight>>]_vars

\* the open socket was closed with code 1005 and no reconnect is pending
NormalCloseHandled ==
    /\ lastEvent = CloseEvent(primaryWsUrl, 1005, FALSE, TRUE)
    /\ websocket.readyState = "CLOSED"
    /\ stale = EmptyBag
    /\ reconnectTimers = EmptyBag
    /\ reconnectAttempts = 0

\* C13: right after every open event the attempt counter is 0 and neither
\* the 10s fallback-poll interval nor the 30s periodic-reconnect interval
\* of fallback mode is running.
OpenResets ==
    lastEvent.kind = "open" =>
        /\ reconnectAttempts = 0
        /\ pollIntervals = {}
        /\ periodicIntervals = {}
        /\ fallbackIntervalId = 0
        /\ reconnectIntervalId = 0

\* a socket opened while both intervals of fallback mode were running
OpenedInFallback ==
    /\ lastEvent = OpenEvent(primaryWsUrl, TRUE)
    /\ websocket.readyState = "OPEN"
    /\ pollIntervals = {}
    /\ periodicIntervals = {}

\* the message data parses to an object with a data.sandwich payload
CarriesSandwich(text) ==
    LET data == JSONparse(text) IN
    data.ok /\ ~data.isArray /\ hasSandwich(data.value[1])

\* C15: a message that does not parse, or parses to a value without a
\* data.sandwich payload, is dropped: the client stays mounted, and the
\* retained list, its cache, the socket, the attempt counter and every timer
\* are as they were.
DropsBadMessage ==
    [][(lastEvent'.kind = "message" /\ ~CarriesSandwich(lastEvent'.text)) =>
        UNCHANGED <<phase, sandwiches, pendingSandwiches, pendingIsNew,
                    saveDue, localStorage, websocket, stale,
                    reconnectAttempts, reconnectTimers, fallbackIntervalId,
                    reconnectIntervalId, initialFallbackIntervalId,
                    pollIntervals, periodicIntervals, backupIntervals,
                    pollsInFlight>>]_vars

\* an object without data.sandwich arrived after a record had been retained
BadMessageDropped ==
    /\ lastEvent = MessageEvent(stringifyValue(PlainObject))
    /\ phase = "mounted"
    /\ websocket.readyState = "OPEN"
    /\ sandwiches = <<Rec(1, 0)>>

\* a socket is connecting or open, or a reconnect timer or an interval of
\* fallback mode is pending
Alive ==
    \/ isLive(websocket)
    \/ reconnectTimers /= EmptyBag
    \/ pollIntervals /= {}
    \/ periodicIntervals /= {}

\* no close event and no reconnect timeout waits for room in the model: a
\* socket that is connecting can fail and a replaced socket can close
\* whenever the queries in flight leave room for the two polls of its
\* handlers, and a reconnect timeout that is pending can fire
NothingHeldBack ==
    /\ (isLive(websocket) /\ pollsInFlight + 2 <= MaxPolls) => ENABLED SocketFail
    /\ (stale /= EmptyBag /\ pollsInFlight + 2 <= MaxPolls)
          => ENABLED StaleSocketClosed
    /\ reconnectTimers /= EmptyBag => ENABLED ReconnectTimer

\* C17: when every connection attempt fails and the component stays
\* mounted, the client enters fallback mode and from then on both intervals
\* of fallback mode run forever; the fallback polls of the 10s interval
\* recur forever, and so do the reconnects of the 30s interval, each of
\* which resets the attempt counter and starts a connection to the primary
\* endpoint without using up a reconnect timeout; the attempts keep ending
\* in a failure of the latest socket, none stays connecting forever; once
\* mounted, the client is never without a live socket, a pending reconnect
\* and a running interval of fallback mode all at once.  In these
\* executions every attempt can end: nothing is held back.
NoFatalState ==
    /\ <>[]FallbackPolling
    /\ []<><<PollTick>>_vars
    /\ []<><<PeriodicReconnect>>_vars
    /\ []<><<(/\ periodicIntervals /= {}
              /\ reconnectTimers' = reconnectTimers
              /\ websocket' = NewSocket(primaryWsUrl)
              /\ reconnectAttempts' = 0)>>_vars
    /\ []<><<(isLive(websocket) /\ websocket'.readyState = "CLOSED")>>_vars
    /\ [](phase = "mounted" => Alive)
    /\ []NothingHeldBack

\* in fallback mode, a periodic reconnect to the primary endpoint has failed
\* and the reconnect it scheduled is pending
FailingInFallback ==
    /\ phase = "mounted"
    /\ FallbackPolling
    /\ closesSinceOpen = maxReconnectAttempts + 2
    /\ reconnectAttempts = 1
    /\ websocket.url = primaryWsUrl
    /\ websocket.readyState = "CLOSED"
    /\ reconnectTimers = SetToBag({fallbackWsUrl})

\* C24: the error event of a socket issues exactly one fallback poll in the
\* step that handles it, whether or not a close handler is attached, and
\* that is all its handler does: when the close event that follows finds
\* the close handler detached, the attempt counter, the reconnect timers
\* and every interval are as they were; when it finds it attached, the one
\* further poll, the one attempt and the one reconnect timer are those of
\* the close handler below the attempt limit, and at the limit the counter
\* and the reconnect timers are as they were.
ErrorPollsOnce ==
    [][(lastEvent'.kind = "close" /\ lastEvent'.error) =>
        LET reconnects == lastEvent'.attached
                            /\ reconnectAttempts < maxReconnectAttempts
            byClose == IF reconnects THEN 1 ELSE 0
        IN  /\ pollsInFlight' = pollsInFlight + 1 + byClose
            /\ reconnectAttempts' = reconnectAttempts + byClose
            /\ BagCardinality(reconnectTimers') =
                  BagCardinality(reconnectTimers) + byClose
            /\ UNCHANGED <<initialFallbackIntervalId, backupIntervals>>
            /\ (~lastEvent'.attached =>
                  UNCHANGED <<fallbackIntervalId, reconnectIntervalId,
                              pollIntervals, periodicIntervals>>)]_vars

\* the cleanup closed a connecting socket: its error event issued a poll
\* after the close handler had been detached
ErrorAfterDetach ==
    /\ phase = "unmounted"
    /\ lastEvent = CloseEvent(primaryWsUrl, 1006, TRUE, FALSE)
    /\ websocket.readyState = "CLOSED"
    /\ pollsInFlight = 1
    /\ reconnectAttempts = 0
    /\ reconnectTimers = EmptyBag

\* the record a settled poll returned
Polled == JSONparse(lastEvent'.text).value[1]

\* C25: a tick of a poll interval starts one instant query.  When the query
\* has settled with a value that parses to a record with a data.sandwich
\* payload, the record goes through the append of the push messages: it is
\* discarded when its slot is retained, and becomes the first element
\* otherwise.  When the query failed, returned nothing, or returned a value
\* that does not parse or has no data.sandwich, the retained list and its
\* cache are as they were.  In either case the component stays as it was
\* and neither the socket nor any timer changes.
PollAppends ==
    /\ [][lastEvent'.kind = "poll" =>
            /\ pollsInFlight' = pollsInFlight - 1
            /\ IF /\ phase = "mounted"
                  /\ lastEvent'.result = "value"
                  /\ CarriesSandwich(lastEvent'.text)
                  THEN AppendResult(pendingSandwiches, Polled, pendingSandwiches')
               ELSE UNCHANGED pendingSandwiches
            /\ UNCHANGED <<sandwiches, localStorage, saveDue>>
            /\ UNCHANGED <<phase, websocket, stale, reconnectAttempts,
                           reconnectTimers, fallbackIntervalId,
                           reconnectIntervalId, initialFallbackIntervalId,
                           pollIntervals, periodicIntervals,
                           backupIntervals>>]_vars
    /\ [][pollsInFlight' > pollsInFlight =>
            pollsInFlight' = pollsInFlight + 1]_vars

\* a poll returned a record whose slot a message had brought before, and
\* the retained record is the one of the message
PolledDuplicateDiscarded ==
    /\ phase = "mounted"
    /\ lastEvent = PollEvent([kind |-> "value", text |-> stringifyValue(Rec(1, 1))])
    /\ Len(sandwiches) = 2
    /\ sandwiches[1].slot \in NewSlots
    /\ sandwiches[2] = Rec(1, 0)

\* C27: the attempt counter is between 0 and 10 in every state, whatever
\* the order of abnormal closes, opens, reconnect timers and ticks of the
\* periodic-reconnect interval.
AttemptsWithinLimit ==
    reconnectAttempts >= 0 /\ reconnectAttempts <= maxReconnectAttempts

\* the tenth attempt is under way: the counter is at its limit, the socket
\* of the tenth reconnect is connecting, fallback mode has not been entered
TenthAttemptConnecting ==
    /\ phase = "mounted"
    /\ reconnectAttempts = maxReconnectAttempts
    /\ websocket.readyState = "CONNECTING"
    /\ reconnectTimers = EmptyBag
    /\ ~FallbackPolling

\* C28: at most one reconnect timer (the 3s setTimeout of onclose) is
\* pending at any time, also when a tick of the periodic-reconnect interval
\* replaces a socket whose reconnects are still going on.
AtMostOneReconnectTimer == BagCardinality(reconnectTimers) <= 1

\* C29: while the component is mounted, an open socket stays the client's
\* socket until its connection ends: no reconnect timer and no tick of the
\* periodic-reconnect interval replaces it by a new socket.
OpenSocketKept ==
    [][(websocket.readyState = "OPEN" /\ phase' = "mounted") =>
        websocket'.readyState \in {"OPEN", "CLOSED"}]_vars

\* C30: from the mount to the cleanup the 30s backup-poll interval set at
\* the mount is running, whatever the state of the connection: no open
\* event and no other step clears or replaces it.  The cleanup clears it.
BackupPollingStays ==
    /\ phase = "mounted" =>
          /\ initialFallbackIntervalId /= 0
          /\ backupIntervals = {initialFallbackIntervalId}
    /\ phase = "unmounted" => backupIntervals = {}

\* a socket to the fallback endpoint is open, the intervals of fallback
\* mode are not running, and the backup interval is
BackupOverOpenSocket ==
    /\ phase = "mounted"
    /\ websocket.readyState = "OPEN"
    /\ websocket.url = fallbackWsUrl
    /\ closesSinceOpen = 0
    /\ pollIntervals = {}
    /\ periodicIntervals = {}
    /\ Cardinality(backupIntervals) = 1
    /\ pollsInFlight > 0

----------------------------------------------------------------------------
(* Properties of the balance series *)

\* the timestamps of the series are strictly increasing
StrictlyIncreasing ==
    \A i \in 1..(Len(balanceChartData) - 1) :
        balanceChartData[i].time < balanceChartData[i + 1].time

\* a step in which a live result arrives leaves the series as it was, or
\* appends one point that is later than the last one
LivePointGuard ==
    [][(liveInFlight' < liveInFlight) =>
        \/ balanceChartData' = balanceChartData
        \/ /\ SubSeq(balanceChartData', 1, Len(balanceChartData)) = balanceChartData
           /\ Len(balanceChartData') = Len(balanceChartData) + 1
           /\ (Len(balanceChartData) > 0 =>
                balanceChartData[Len(balanceChartData)].time
                    < balanceChartData'[Len(balanceChartData')].time)]_vars

\* C8: the timestamps of the balance series are strictly increasing in
\* every state, whatever the order in which the historical result and the
\* live results arrive; a live point that is not later than the last
\* retained point is rejected and the series is left as it was.
MonotonicSeries == []StrictlyIncreasing /\ LivePointGuard

\* live points were appended after the historical points
LiveAfterHistory ==
    /\ historyFetch = "done"
    /\ Len(balanceChartData) >= 3
    /\ balanceChartData[Len(balanceChartData)].balance = 1
    /\ balanceChartData[Len(balanceChartData) - 1].balance = 1

\* C19: the historical fetch is issued once, by the mount; when its range
\* query has settled, the stored series is empty if the query failed or
\* returned no series, and otherwise it is the returned points in their
\* order, nothing else.
HistoricalFetchResult ==
    /\ []((lastEvent.kind = "history" /\ phase = "mounted") =>
            balanceChartData =
                IF lastEvent.result = "matrix" THEN lastEvent.values ELSE <<>>)
    /\ [][/\ ((historyFetch' = "pending" /\ historyFetch /= "pending")
                  => phase = "init")
           /\ (historyFetch = "done" => historyFetch' = "done")]_vars

\* the range query returned a point for every time and they were stored
HistoryStored ==
    /\ phase = "mounted"
    /\ lastEvent.kind = "history"
    /\ lastEvent.result = "matrix"
    /\ Len(balanceChartData) = MaxTime
    /\ \A i \in 1..MaxTime : balanceChartData[i] = Point(i, 0)

\* C20: a point that is in the stored series stays in it, unchanged, in
\* every later state, whatever the order in which the historical result
\* and the live results arrive.
PointsNeverRemoved ==
    [][\A i \in 1..Len(balanceChartData) :
          \E j \in 1..Len(balanceChartData') :
              balanceChartData'[j] = balanceChartData[i]]_vars

----------------------------------------------------------------------------
(* Properties of the rate snapshot *)

FiveLabels == {"1h", "3h", "6h", "12h", "24h"}

\* C18: the published snapshot is empty (before the first refresh) or maps
\* all five labels; the query of a label sets, in the mapping of the call
\* that made it, that label alone, to the returned value, or to 0 when it
\* failed or returned nothing, and leaves what the other labels got and the
\* mappings of the other calls; the snapshot changes only by being replaced,
\* in one step, by the finished mapping of all five labels of one call.
RateSnapshot ==
    /\ [](profitPerHour = EmptyMap \/ DOMAIN profitPerHour = FiveLabels)
    /\ [][lastEvent'.kind = "rate" =>
            LET call == lastEvent'.call
                range == lastEvent'.range
                before == rateFetches[call].profits
                after == rateFetches'[call].profits
            IN  /\ range \notin DOMAIN before
                /\ DOMAIN after = DOMAIN before \cup {range}
                /\ after[range] =
                      IF lastEvent'.result = "vector" THEN lastEvent'.value ELSE 0
                /\ \A other \in DOMAIN before : after[other] = before[other]
                /\ \A other \in RateCalls \ {call} :
                      rateFetches'[other] = rateFetches[other]]_vars
    /\ [][profitPerHour' /= profitPerHour =>
            \E call \in RateCalls :
                /\ rateFetches[call].state = "running"
                /\ rateFetches'[call].state = "done"
                /\ profitPerHour' = rateFetches'[call].profits
                /\ DOMAIN profitPerHour' = FiveLabels]_vars

\* a refresh whose last query failed was published while a later call
\* awaited its third query: 0 for that label, the returned value for
\* another, and nothing of the later call's mapping
SnapshotPublished ==
    /\ phase = "mounted"
    /\ lastEvent.kind = "rate"
    /\ lastEvent.range = "24h"
    /\ lastEvent.result = "error"
    /\ DOMAIN profitPerHour = FiveLabels
    /\ profitPerHour["24h"] = 0
    /\ profitPerHour["1h"] = 1
    /\ profitPerHour["3h"] = 0
    /\ \E call \in RateCalls \ {lastEvent.call} :
          /\ rateFetches[call].state = "running"
          /\ DOMAIN rateFetches[call].profits = {"1h", "3h"}
          /\ rateFetches[call].profits["1h"] = 0
          /\ rateFetches[call].profits["3h"] = 1

----------------------------------------------------------------------------
(* Properties of the profit-rate view *)

\* C26: the stored series is the result of the activation the view is in:
\* once the range queries have settled, it is what the query of the latest
\* activation returned (the empty series when that query failed), also
\* when the view was left and entered again while an earlier query was in
\* flight.
ProfitRateOfActivation ==
    (phase = "mounted" /\ profitFetches = {} /\ activations > 0) =>
        profitRateData = fetchedProfit[activations]

====
